---- MODULE Spec2Model ----
(***************************************************************************)
(* Couple Budgeting & Itinerary App (src/app.py).                          *)
(*                                                                         *)
(* The app is a Streamlit script: every user interaction re-runs the       *)
(* script top to bottom against one SQLite database (app.db) and one       *)
(* session (st.session_state).  One action below is one run of the script  *)
(* along one of its paths: the Set-PIN page, the Login page, or, past the  *)
(* gate, the automatic backup, the over-budget check and the chosen menu   *)
(* page.                                                                   *)
(*                                                                         *)
(* Modelling decisions:                                                    *)
(*  - TEXT dates are sequences of character codes, compared as SQLite      *)
(*    compares TEXT (byte by byte); formatting is done digit by digit.     *)
(*  - REAL amounts are whole currency units (naturals), on which IEEE      *)
(*    double addition is exact; SQL NULL / Python None is <<>>, a value v  *)
(*    is <<v>>.                                                            *)
(*  - screen is what the last run rendered (page, widget values, metrics,  *)
(*    the documents handed to the download buttons).  The st.dataframe     *)
(*    listings and the income-by-contributor chart read whole tables and   *)
(*    write nothing; they are not part of screen.                          *)
(***************************************************************************)
EXTENDS Integers, Sequences, FiniteSets, TLC

VARIABLES
    settings,       \* table settings: key -> value
    authenticated,  \* st.session_state.authenticated
    income,         \* table income, in insertion (rowid) order
    expenses,       \* table expenses
    savings,        \* table savings
    itinerary,      \* table itinerary
    budget,         \* table budget: category -> limit_amount
    backups,        \* files of BACKUP_DIR written by the automatic backup: path -> workbook
    screen          \* what the last run of the script rendered

vars == <<settings, authenticated, income, expenses, savings, itinerary,
          budget, backups, screen>>

ledger == <<income, expenses, savings, itinerary>>

(***************************************************************************)
(* Bounds.                                                                 *)
(***************************************************************************)
\* Rows the Add forms may insert in all (over the four ledger tables).
MaxRows == 2
\* Rows an existing database holds (income, expenses and savings together).
MaxStoredRows == 2

(***************************************************************************)
(* Text: formatting and comparison.                                        *)
(***************************************************************************)
Digit(n) == 48 + n
Dash == <<45>>

RECURSIVE StrInt(_)
\* str(n) of a natural: decimal digits, no padding.
StrInt(n) == IF n < 10 THEN <<Digit(n)>> ELSE StrInt(n \div 10) \o <<Digit(n % 10)>>

RECURSIVE ZeroPad(_, _)
ZeroPad(s, w) == IF Len(s) >= w THEN s ELSE ZeroPad(<<Digit(0)>> \o s, w)

\* Fault: the month is written without zero padding, f"{n}".
FmtUnpadded(n) == StrInt(n)

\* f"{n:02d}"
Fmt02d(n) == ZeroPad(StrInt(n), 2)

\* f"{year}-{month:02d}-01"
start_date(year, month) == StrInt(year) \o Dash \o Fmt02d(month) \o Dash \o <<Digit(0), Digit(1)>>

\* Fault: the month is taken to end on day 30.
end_date_day30(year, month) == StrInt(year) \o Dash \o Fmt02d(month) \o Dash \o <<Digit(3), Digit(0)>>

\* f"{year}-{month:02d}-31"
end_date(year, month) == StrInt(year) \o Dash \o Fmt02d(month) \o Dash \o <<Digit(3), Digit(1)>>

\* The TEXT stored for a datetime.date bound to a statement: date.isoformat().
isoformat(d) ==
    ZeroPad(StrInt(d.year), 4) \o Dash \o ZeroPad(StrInt(d.month), 2) \o Dash \o ZeroPad(StrInt(d.day), 2)

RECURSIVE TextLessFrom(_, _, _)
\* a < b from position i on: the first differing byte decides, a proper prefix is smaller.
TextLessFrom(a, b, i) ==
    IF i > Len(a) THEN i <= Len(b)
    ELSE IF i > Len(b) THEN FALSE
    ELSE IF a[i] # b[i] THEN a[i] < b[i]
    ELSE TextLessFrom(a, b, i + 1)

TextLE(a, b) == a = b \/ TextLessFrom(a, b, 1)

\* Fault: the upper end is excluded, lo <= x AND x < hi.
BetweenHalfOpen(x, lo, hi) == TextLE(lo, x) /\ TextLessFrom(x, hi, 1)

\* x BETWEEN lo AND hi
Between(x, lo, hi) == TextLE(lo, x) /\ TextLE(x, hi)

(***************************************************************************)
(* Settings and the PIN.                                                   *)
(***************************************************************************)
\* hashlib.sha256(pin.encode()).hexdigest(): one digest per PIN, never empty.
hash_pin(pin) == "sha256(" \o pin \o ")"

get_setting(key) == IF key \in DOMAIN settings THEN <<settings[key]>> ELSE <<>>

\* INSERT OR REPLACE INTO settings VALUES (key, value)
set_setting(key, value) == [k \in DOMAIN settings \cup {key} |-> IF k = key THEN value ELSE settings[k]]

\* Python truth of an optional string: None and "" are false.
Truthy(v) == v # <<>> /\ v[1] # ""

stored_pin == get_setting("pin_hash")

\* Fault: the entered PIN is not compared with the stored hash.
AnyPinMatches(pin) == TRUE

\* hash_pin(pin) == stored_pin
PinMatches(pin) == <<hash_pin(pin)>> = stored_pin

(***************************************************************************)
(* Queries.                                                                *)
(***************************************************************************)
\* Fault: the query has no WHERE clause.
WhereAnyDate(rows, lo, hi) == rows

\* WHERE date BETWEEN lo AND hi, rows kept in table order
Where(rows, lo, hi) == SelectSeq(rows, LAMBDA r : Between(r.date, lo, hi))

\* Fault: the amount column is selected bare, without SUM: one row's amount stands for the group.
TotalLastRow(rows) == IF rows = <<>> THEN 0 ELSE rows[Len(rows)].amount

RECURSIVE Total(_)
Total(rows) == IF rows = <<>> THEN 0 ELSE Head(rows).amount + Total(Tail(rows))

\* SELECT SUM(amount): NULL when no row matches
SumAmount(rows) == IF rows = <<>> THEN <<>> ELSE <<Total(rows)>>

\* Python `x or 0`
OrZero(v) == IF v = <<>> THEN 0 ELSE v[1]

\* SELECT SUM(amount) total FROM <table> WHERE date BETWEEN lo AND hi ... ["total"][0] or 0
RangeTotal(rows, lo, hi) == OrZero(SumAmount(Where(rows, lo, hi)))

\* SELECT category, SUM(amount) total FROM expenses WHERE date BETWEEN lo AND hi GROUP BY category
expense_df(rows, lo, hi) ==
    LET hit == Where(rows, lo, hi)
    IN  [c \in {hit[i].category : i \in DOMAIN hit} |->
            Total(SelectSeq(hit, LAMBDA r : r.category = c))]

\* pd.merge(budget_df, expense_df, on="category", how="left").fillna(0)
merged(budget_df, df) ==
    [c \in DOMAIN budget_df |->
        [limit_amount |-> budget_df[c], total |-> IF c \in DOMAIN df THEN df[c] ELSE 0]]

\* Fault: a category that has reached its limit already counts as over budget.
over_budget_at_limit(m) == {c \in DOMAIN m : m[c].total >= m[c].limit_amount}

\* merged[merged["total"] > merged["limit_amount"]]
over_budget(m) == {c \in DOMAIN m : m[c].total > m[c].limit_amount}

\* not over_budget.empty, for the selected month
Warning(year, month) ==
    over_budget(merged(budget, expense_df(expenses, start_date(year, month), end_date(year, month)))) # {}

\* The three totals of the dashboard and of the PDF report.
MonthTotals(year, month) ==
    LET lo == start_date(year, month)
        hi == end_date(year, month)
    IN  [income |-> RangeTotal(income, lo, hi),
         expenses |-> RangeTotal(expenses, lo, hi),
         savings |-> RangeTotal(savings, lo, hi)]

\* The four sheets an Excel writer is given.
Workbook == [Income |-> income, Expenses |-> expenses, Savings |-> savings, Itinerary |-> itinerary]

backup_key(year, month) == "backup_" \o ToString(year) \o "_" \o ToString(month)

(***************************************************************************)
(* Inputs.                                                                 *)
(***************************************************************************)
Date(y, m, d) == [year |-> y, month |-> m, day |-> d]

\* PINs typed on the Login page, and the PIN saved on the Set-PIN page.
Pins == {"1234", "0000"}
NewPins == {"1234"}
Categories == {"Food", "Travel"}
Amounts == {1, 2}

\* Year and month of the sidebar's time filter.
SelYears == {2024}
SelMonths == {2, 3}

\* Dates picked in the forms of the lifecycle specification.
FormDates == {Date(2024, 2, 29), Date(2024, 3, 1)}

IncomeRow(d, amount, contributor) ==
    [date |-> isoformat(d), account |-> "cash", source |-> "salary", amount |-> amount,
     contributor |-> contributor]
ExpenseRow(d, category, amount) ==
    [date |-> isoformat(d), category |-> category, amount |-> amount, account |-> "cash",
     itinerary |-> ""]
SavingsRow(d, amount) ==
    [date |-> isoformat(d), amount |-> amount, account |-> "cash", note |-> ""]
ItineraryRow(d, planned, actual) ==
    [date |-> isoformat(d), activity |-> "trip", planned_budget |-> planned,
     actual_expense |-> actual]

IncomeInputs == {IncomeRow(Date(2024, 2, 29), 1, "You")}
ExpenseInputs == {ExpenseRow(d, "Food", 2) : d \in FormDates} \cup {ExpenseRow(Date(2024, 2, 29), "Food", 1)}
SavingsInputs == {SavingsRow(Date(2024, 3, 1), 1)}
ItineraryInputs == {ItineraryRow(Date(2024, 2, 29), 1, 2)}

EmptyBudget == <<>>
\* The budget tables a database may hold when the app starts.
BudgetTables == {EmptyBudget, [c \in {"Food"} |-> 2]}

(***************************************************************************)
(* The state after construction: tables created, a new session.            *)
(***************************************************************************)
Blank ==
    [page |-> "", pin |-> "", clicked |-> FALSE, error |-> FALSE, year |-> 0, month |-> 0,
     backup |-> FALSE, warning |-> FALSE, totals |-> <<>>, pdf |-> <<>>, excel |-> <<>>]

Init ==
    /\ settings = <<>>
    /\ authenticated = FALSE
    /\ income = <<>>
    /\ expenses = <<>>
    /\ savings = <<>>
    /\ itinerary = <<>>
    /\ budget \in BudgetTables
    /\ backups = <<>>
    /\ screen = Blank

(***************************************************************************)
(* The gate.                                                               *)
(***************************************************************************)
\* A browser session begins: "authenticated" is not in st.session_state.
NewSession ==
    /\ authenticated' = FALSE
    /\ screen' = Blank
    /\ UNCHANGED <<settings, ledger, budget, backups>>

\* if not stored_pin: the Set-PIN page, then st.stop()
SetPinPage(pin, click) ==
    /\ ~Truthy(stored_pin)
    /\ settings' = IF click THEN set_setting("pin_hash", hash_pin(pin)) ELSE settings
    /\ screen' = [Blank EXCEPT !.page = "SetPin", !.pin = pin, !.clicked = click]
    /\ UNCHANGED <<authenticated, ledger, budget, backups>>

\* if not st.session_state.authenticated: the Login page, then st.stop()
LoginPage(pin, click) ==
    /\ Truthy(stored_pin)
    /\ ~authenticated
    /\ authenticated' = (click /\ PinMatches(pin))
    /\ screen' = [Blank EXCEPT !.page = "Login", !.pin = pin, !.clicked = click,
                               !.error = (click /\ ~PinMatches(pin))]
    /\ UNCHANGED <<settings, ledger, budget, backups>>

(***************************************************************************)
(* Past the gate: time filter, automatic backup, over-budget check.        *)
(***************************************************************************)
PastGate == Truthy(stored_pin) /\ authenticated

\* Fault: the backup is taken on every run, whatever the settings say.
BackupAlways(year, month) == TRUE

\* if not get_setting(backup_key)
BackupDue(year, month) == ~Truthy(get_setting(backup_key(year, month)))

\* Everything a run does between the gate and the menu.
Preamble(year, month) ==
    /\ PastGate
    /\ IF BackupDue(year, month)
       THEN /\ backups' = [p \in DOMAIN backups \cup {backup_key(year, month)} |->
                              IF p = backup_key(year, month) THEN Workbook ELSE backups[p]]
            /\ settings' = set_setting(backup_key(year, month), "done")
       ELSE UNCHANGED <<backups, settings>>
    /\ UNCHANGED authenticated

\* What every page past the gate shows.
MainScreen(page, year, month) ==
    [Blank EXCEPT !.page = page, !.year = year, !.month = month,
                  !.backup = BackupDue(year, month), !.warning = Warning(year, month)]

RowsInserted == Len(income) + Len(expenses) + Len(savings) + Len(itinerary)

\* Fault: INSERT OR REPLACE on the date: the rows of that date are dropped first.
InsertOrReplace(table, row) == Append(SelectSeq(table, LAMBDA r : r.date # row.date), row)

\* INSERT INTO <table> VALUES (...): a new row after the existing ones
InsertRow(table, row) == Append(table, row)

(***************************************************************************)
(* The menu pages.                                                         *)
(***************************************************************************)
Dashboard(year, month) ==
    /\ Preamble(year, month)
    /\ screen' = [MainScreen("Dashboard", year, month) EXCEPT !.totals = <<MonthTotals(year, month)>>]
    /\ UNCHANGED <<ledger, budget>>

IncomePage(year, month, submit, row) ==
    /\ Preamble(year, month)
    /\ submit => RowsInserted < MaxRows
    /\ income' = IF submit THEN InsertRow(income, row) ELSE income
    /\ screen' = MainScreen("Income", year, month)
    /\ UNCHANGED <<expenses, savings, itinerary, budget>>

\* Fault: adding an expense also creates a budget row for its category.
ExpensesPageSeedingBudget(year, month, submit, row) ==
    /\ Preamble(year, month)
    /\ submit => RowsInserted < MaxRows
    /\ expenses' = IF submit THEN InsertRow(expenses, row) ELSE expenses
    /\ budget' = IF submit /\ row.category \notin DOMAIN budget
                 THEN [c \in DOMAIN budget \cup {row.category} |->
                          IF c = row.category THEN 0 ELSE budget[c]]
                 ELSE budget
    /\ screen' = MainScreen("Expenses", year, month)
    /\ UNCHANGED <<income, savings, itinerary>>

ExpensesPage(year, month, submit, row) ==
    /\ Preamble(year, month)
    /\ submit => RowsInserted < MaxRows
    /\ expenses' = IF submit THEN InsertRow(expenses, row) ELSE expenses
    /\ screen' = MainScreen("Expenses", year, month)
    /\ UNCHANGED <<income, savings, itinerary, budget>>

SavingsPage(year, month, submit, row) ==
    /\ Preamble(year, month)
    /\ submit => RowsInserted < MaxRows
    /\ savings' = IF submit THEN InsertRow(savings, row) ELSE savings
    /\ screen' = MainScreen("Savings", year, month)
    /\ UNCHANGED <<income, expenses, itinerary, budget>>

ItineraryPage(year, month, submit, row) ==
    /\ Preamble(year, month)
    /\ submit => RowsInserted < MaxRows
    /\ itinerary' = IF submit THEN InsertRow(itinerary, row) ELSE itinerary
    /\ screen' = MainScreen("Itinerary", year, month)
    /\ UNCHANGED <<income, expenses, savings, budget>>

\* generate_pdf(): the three totals of the report
generate_pdf(year, month) == MonthTotals(year, month)

\* export_excel(): the four tables
export_excel == Workbook

ReportsPage(year, month, button) ==
    /\ Preamble(year, month)
    /\ screen' = [MainScreen("Reports", year, month) EXCEPT
                     !.pdf = IF button = "pdf" THEN <<generate_pdf(year, month)>> ELSE <<>>,
                     !.excel = IF button = "excel" THEN <<export_excel>> ELSE <<>>]
    /\ UNCHANGED <<ledger, budget>>

Next ==
    \/ NewSession
    \/ \E pin \in NewPins, click \in BOOLEAN : SetPinPage(pin, click)
    \/ \E pin \in Pins, click \in BOOLEAN : LoginPage(pin, click)
    \/ \E year \in SelYears, month \in SelMonths :
        \/ Dashboard(year, month)
        \/ \E submit \in BOOLEAN, row \in IncomeInputs : IncomePage(year, month, submit, row)
        \/ \E submit \in BOOLEAN, row \in ExpenseInputs : ExpensesPage(year, month, submit, row)
        \/ \E submit \in BOOLEAN, row \in SavingsInputs : SavingsPage(year, month, submit, row)
        \/ \E submit \in BOOLEAN, row \in ItineraryInputs : ItineraryPage(year, month, submit, row)
        \/ \E button \in {"none", "pdf", "excel"} : ReportsPage(year, month, button)

Spec == Init /\ [][Next]_vars

(***************************************************************************)
(* An existing database.  The tables are created IF NOT EXISTS, so the app *)
(* may start on rows stored by earlier sessions: the PIN is set, the       *)
(* months of the time filter have had their backup (taken while the ledger *)
(* was still empty), and the ledger holds any rows the forms can insert.   *)
(***************************************************************************)
\* Sequences over S of length at most n.
SeqsUpTo(S, n) == UNION {[1..k -> S] : k \in 0..n}

EmptyWorkbook == [Income |-> <<>>, Expenses |-> <<>>, Savings |-> <<>>, Itinerary |-> <<>>]

\* settings and backups once the app has been opened on each of the months.
UsedSettings(pin, years, months) ==
    [k \in {"pin_hash"} \cup {backup_key(y, m) : y \in years, m \in months} |->
        IF k = "pin_hash" THEN hash_pin(pin) ELSE "done"]
UsedBackups(years, months) ==
    [p \in {backup_key(y, m) : y \in years, m \in months} |-> EmptyWorkbook]

\* Dates around the two selectable months: the day before February, its
\* first and last day, the first and the 31st of March.
StoredDates ==
    {Date(2024, 1, 31), Date(2024, 2, 1), Date(2024, 2, 29), Date(2024, 3, 1), Date(2024, 3, 31)}
StoredExpenses ==
    {ExpenseRow(d, "Food", a) : d \in StoredDates, a \in Amounts}
    \cup {ExpenseRow(d, "Travel", 1) : d \in StoredDates}
StoredIncome == {IncomeRow(d, 1, "You") : d \in {Date(2024, 2, 1), Date(2024, 3, 31)}}
StoredSavings == {SavingsRow(d, 1) : d \in {Date(2024, 2, 1), Date(2024, 3, 31)}}

FoodTravelBudget == [c \in Categories |-> IF c = "Food" THEN 2 ELSE 0]
StoredBudgets == {EmptyBudget, FoodTravelBudget, [c \in Categories |-> IF c = "Food" THEN 1 ELSE -1]}

InitStored ==
    /\ settings = UsedSettings("1234", SelYears, SelMonths)
    /\ backups = UsedBackups(SelYears, SelMonths)
    /\ authenticated = FALSE
    /\ expenses \in SeqsUpTo(StoredExpenses, MaxStoredRows)
    /\ income \in SeqsUpTo(StoredIncome, MaxStoredRows - Len(expenses))
    /\ savings \in SeqsUpTo(StoredSavings, MaxStoredRows - Len(expenses) - Len(income))
    /\ itinerary = <<>>
    /\ budget \in StoredBudgets
    /\ screen = Blank

\* The runs that read the ledger: log in, then the dashboard and the report.
NextStored ==
    \/ LoginPage("1234", TRUE)
    \/ \E year \in SelYears, month \in SelMonths :
        \/ Dashboard(year, month)
        \/ ReportsPage(year, month, "pdf")

AggSpec == InitStored /\ [][NextStored]_vars

(***************************************************************************)
(* The expenses alone: any stored expenses under one budget, and the runs  *)
(* that aggregate them for the dashboard.                                  *)
(***************************************************************************)
InitExpenses ==
    /\ settings = UsedSettings("1234", SelYears, SelMonths)
    /\ backups = UsedBackups(SelYears, SelMonths)
    /\ authenticated = FALSE
    /\ expenses \in SeqsUpTo(StoredExpenses, MaxStoredRows)
    /\ income = <<>>
    /\ savings = <<>>
    /\ itinerary = <<>>
    /\ budget = FoodTravelBudget
    /\ screen = Blank

NextExpenses ==
    \/ LoginPage("1234", TRUE)
    \/ \E year \in SelYears, month \in SelMonths : Dashboard(year, month)

RangeSpec == InitExpenses /\ [][NextExpenses]_vars

(***************************************************************************)
(* The calendar sweep: one expense on any day of four years, the dashboard *)
(* opened on every month of two of them (2023, and the leap year 2024).    *)
(***************************************************************************)
IsLeap(y) == (y % 4 = 0 /\ y % 100 # 0) \/ y % 400 = 0
DaysInMonth(y, m) ==
    IF m = 2 THEN (IF IsLeap(y) THEN 29 ELSE 28)
    ELSE IF m \in {4, 6, 9, 11} THEN 30 ELSE 31

\* The dates st.date_input can return within the given years.
CalendarDates(years) ==
    {dt \in {Date(y, m, d) : y \in years, m \in 1..12, d \in 1..31} :
        dt.day <= DaysInMonth(dt.year, dt.month)}

SweepYears == {2023, 2024}
SweepMonths == 1..12
SweepDates == CalendarDates(2022..2025)

InitSweep ==
    /\ settings = UsedSettings("1234", SweepYears, SweepMonths)
    /\ backups = UsedBackups(SweepYears, SweepMonths)
    /\ authenticated = FALSE
    /\ expenses \in {<<ExpenseRow(d, "Food", 1)>> : d \in SweepDates}
    /\ income = <<>>
    /\ savings = <<>>
    /\ itinerary = <<>>
    /\ budget = EmptyBudget
    /\ screen = Blank

NextSweep ==
    \/ LoginPage("1234", TRUE)
    \/ \E year \in SweepYears, month \in SweepMonths : Dashboard(year, month)

CalSpec == InitSweep /\ [][NextSweep]_vars

(***************************************************************************)
(* The calendar reading of the stored rows, used to state the properties:  *)
(* dates are read back as year, month and day and compared as such.        *)
(***************************************************************************)
DigitVal(ch) == ch - 48
ParseIso(s) ==
    Date(1000 * DigitVal(s[1]) + 100 * DigitVal(s[2]) + 10 * DigitVal(s[3]) + DigitVal(s[4]),
         10 * DigitVal(s[6]) + DigitVal(s[7]),
         10 * DigitVal(s[9]) + DigitVal(s[10]))

\* a is on or before b
CalLE(a, b) ==
    \/ a.year < b.year
    \/ a.year = b.year /\ a.month < b.month
    \/ a.year = b.year /\ a.month = b.month /\ a.day <= b.day

NextDay(d) ==
    IF d.day < DaysInMonth(d.year, d.month) THEN Date(d.year, d.month, d.day + 1)
    ELSE IF d.month < 12 THEN Date(d.year, d.month + 1, 1)
    ELSE Date(d.year + 1, 1, 1)

RECURSIVE SumOver(_, _)
\* The amounts of the rows at the positions I, added up.
SumOver(rows, I) ==
    IF I = {} THEN 0
    ELSE LET i == CHOOSE k \in I : TRUE IN rows[i].amount + SumOver(rows, I \ {i})

\* Positions of the rows dated from day 1 to day 31 of the month, both included.
InRange(rows, year, month) ==
    {i \in DOMAIN rows :
        /\ CalLE(Date(year, month, 1), ParseIso(rows[i].date))
        /\ CalLE(ParseIso(rows[i].date), Date(year, month, 31))}

\* Positions of the rows dated within the calendar month.
InMonth(rows, year, month) ==
    {i \in DOMAIN rows :
        ParseIso(rows[i].date).year = year /\ ParseIso(rows[i].date).month = month}

CategoryTotal(rows, I, c) == SumOver(rows, {i \in I : rows[i].category = c})
ByCategory(rows, I) == [c \in {rows[i].category : i \in I} |-> CategoryTotal(rows, I, c)]

RangeTotals(year, month) ==
    [income |-> SumOver(income, InRange(income, year, month)),
     expenses |-> SumOver(expenses, InRange(expenses, year, month)),
     savings |-> SumOver(savings, InRange(savings, year, month))]

MainPages == {"Dashboard", "Income", "Expenses", "Savings", "Itinerary", "Reports"}
OnMainPage == screen.page \in MainPages

\* The aggregate of the expenses over a range of stored dates: per-category sums and grand total.
Aggregate(rows, lo, hi) == [by |-> expense_df(rows, lo, hi), total |-> RangeTotal(rows, lo, hi)]

\* Category-wise sum of two aggregates.
MergeAggregates(A, B) ==
    [by |-> [c \in DOMAIN A.by \cup DOMAIN B.by |->
                (IF c \in DOMAIN A.by THEN A.by[c] ELSE 0) + (IF c \in DOMAIN B.by THEN B.by[c] ELSE 0)],
     total |-> A.total + B.total]

Orderings(n) == {p \in [1..n -> 1..n] : \A i, j \in 1..n : p[i] = p[j] => i = j}
Reordered(rows, p) == [i \in 1..Len(rows) |-> rows[p[i]]]

IsPrefix(s, t) == Len(s) <= Len(t) /\ SubSeq(t, 1, Len(s)) = s

(***************************************************************************)
(* Properties.                                                             *)
(***************************************************************************)

\* C1: a record is counted in the monthly aggregates (per-category expense
\* sums, totals of the dashboard and of the PDF report) exactly when its date
\* lies from day 01 to day 31 of the selected month, both ends included.
C1_ClosedRange ==
    OnMainPage =>
        LET lo == start_date(screen.year, screen.month)
            hi == end_date(screen.year, screen.month)
        IN  /\ screen.totals # <<>> => screen.totals[1] = RangeTotals(screen.year, screen.month)
            /\ screen.pdf # <<>> => screen.pdf[1] = RangeTotals(screen.year, screen.month)
            /\ expense_df(expenses, lo, hi)
                 = ByCategory(expenses, InRange(expenses, screen.year, screen.month))
            /\ \A i \in DOMAIN expenses :
                 Between(expenses[i].date, lo, hi) <=> i \in InRange(expenses, screen.year, screen.month)

\* The dashboard of March shows the sum of an expense dated the 1st and one dated the 31st.
C1_Witness ==
    /\ screen.page = "Dashboard"
    /\ Len(expenses) = 2
    /\ expenses[1].date = start_date(screen.year, screen.month)
    /\ expenses[2].date = end_date(screen.year, screen.month)
    /\ screen.totals[1].expenses = expenses[1].amount + expenses[2].amount

\* C2: the over-budget warning is raised in a run exactly when some budget
\* category's expenses within the selected month exceed its limit strictly;
\* a category without expenses counts as 0, and equality raises nothing.
C2_OverBudgetIff ==
    OnMainPage =>
        (screen.warning <=>
            \E c \in DOMAIN budget :
                CategoryTotal(expenses, InRange(expenses, screen.year, screen.month), c) > budget[c])

\* Two expenses, neither above the limit alone, raise the warning together.
C2_Witness ==
    /\ OnMainPage
    /\ screen.warning
    /\ "Food" \in DOMAIN budget
    /\ Len(expenses) = 2
    /\ \A i \in 1..2 : expenses[i].category = "Food" /\ expenses[i].amount <= budget["Food"]
    /\ \A c \in DOMAIN budget : c # "Food" => budget[c] >= 0

\* The ways to cut a range of stored dates in two: [lo, cut] and [next, hi],
\* where next is the day after cut; and the ways to cut two months of the
\* time filter at the month's end, as the app writes its ranges.
DaySplits ==
    {[lo |-> isoformat(t[1]), cut |-> isoformat(t[2]), next |-> isoformat(NextDay(t[2])),
      hi |-> isoformat(t[3])] :
        t \in {u \in StoredDates \X StoredDates \X StoredDates :
                  CalLE(u[1], u[2]) /\ CalLE(NextDay(u[2]), u[3])}}
MonthSplits ==
    {[lo |-> start_date(y, m), cut |-> end_date(y, m), next |-> start_date(y, m + 1),
      hi |-> end_date(y, m + 1)] : y \in SelYears, m \in {k \in SelMonths : k + 1 \in SelMonths}}

C5_EmptyRange ==
    OnMainPage =>
        LET y == screen.year
            m == screen.month
            shown == IF screen.totals # <<>> THEN screen.totals ELSE screen.pdf
            df == expense_df(expenses, start_date(y, m), end_date(y, m))
        IN  /\ shown # <<>> =>
                /\ InRange(income, y, m) = {} => shown[1].income = 0
                /\ InRange(expenses, y, m) = {} => shown[1].expenses = 0
                /\ InRange(savings, y, m) = {} => shown[1].savings = 0
            /\ InRange(expenses, y, m) = {} =>
                /\ DOMAIN df = {}
                /\ \A c \in over_budget(merged(budget, df)) : budget[c] < 0
                /\ (\A c \in DOMAIN budget : budget[c] >= 0) => ~screen.warning

\* The dashboard of a month none of the stored expenses falls in, with a budget in place.
C5_Witness ==
    /\ screen.page = "Dashboard"
    /\ expenses # <<>>
    /\ InRange(expenses, screen.year, screen.month) = {}
    /\ InRange(income, screen.year, screen.month) = {}
    /\ InRange(savings, screen.year, screen.month) = {}
    /\ DOMAIN budget # {}
    /\ \A c \in DOMAIN budget : budget[c] >= 0
    /\ screen.totals[1] = [income |-> 0, expenses |-> 0, savings |-> 0]
    /\ ~screen.warning

C4_AppendOnly ==
    [][/\ IsPrefix(income, income')
       /\ IsPrefix(expenses, expenses')
       /\ IsPrefix(savings, savings')
       /\ IsPrefix(itinerary, itinerary')]_vars

\* Rows of two tables, inserted by earlier runs, are still there on the Reports page.
C4_Witness ==
    /\ screen.page = "Reports"
    /\ Len(expenses) = 1
    /\ Len(income) = 1
    /\ screen.excel = <<Workbook>>

\* C7 as claimed: day 31 ends every month, and on a month shorter than 31
\* days the filter admits a valid calendar date outside the selected month.
C7_OverIncludes ==
    screen.page = "Dashboard" =>
        /\ end_date(screen.year, screen.month) = isoformat(Date(screen.year, screen.month, 31))
        /\ DaysInMonth(screen.year, screen.month) < 31 =>
             \E d \in SweepDates :
                /\ ~(d.year = screen.year /\ d.month = screen.month)
                /\ Between(isoformat(d), start_date(screen.year, screen.month),
                           end_date(screen.year, screen.month))

\* C7 as amended: day 31 ends every month, and the filter counts exactly the
\* records dated within the selected calendar month, whatever its length.
C7_ExactMonth ==
    screen.page = "Dashboard" =>
        /\ end_date(screen.year, screen.month) = isoformat(Date(screen.year, screen.month, 31))
        /\ screen.totals[1].expenses
             = SumOver(expenses, InMonth(expenses, screen.year, screen.month))
        /\ \A i \in DOMAIN expenses :
             Between(expenses[i].date, start_date(screen.year, screen.month),
                     end_date(screen.year, screen.month))
               <=> i \in InMonth(expenses, screen.year, screen.month)

\* February 2023 on the dashboard, the only expense dated 1 March 2023: not counted.
C7_Witness ==
    /\ screen.page = "Dashboard"
    /\ screen.year = 2023
    /\ screen.month = 2
    /\ Len(expenses) = 1
    /\ ParseIso(expenses[1].date) = Date(2023, 3, 1)
    /\ screen.totals[1].expenses = 0

\* C8: nothing past the gate runs unless a PIN is stored and the session is
\* authenticated; the flag starts false, turns true only on a Login click
\* with the PIN whose hash is stored, stays false on a wrong PIN, and saving
\* a PIN leaves it false.
C8_PinGate ==
    /\ ~authenticated
    /\ [][/\ (ledger' # ledger \/ backups' # backups \/ screen'.page \in MainPages)
               => (Truthy(stored_pin) /\ authenticated)
          /\ (authenticated' /\ ~authenticated)
               => (screen'.page = "Login" /\ screen'.clicked /\ <<hash_pin(screen'.pin)>> = stored_pin)
          /\ (screen'.page = "Login" /\ screen'.clicked /\ <<hash_pin(screen'.pin)>> # stored_pin)
               => ~authenticated'
          /\ screen'.page = "SetPin" => ~authenticated']_vars

\* A session that has just logged in with the stored PIN.
C8_Witness ==
    /\ authenticated
    /\ screen.page = "Login"
    /\ screen.clicked
    /\ <<hash_pin(screen.pin)>> = stored_pin

\* C9: a run past the gate writes the month's backup exactly when the key
\* backup_{year}_{month} is absent, and leaves the key set to "done"; a key
\* once set stays set, and the backup of a month whose key is set is never
\* written again.
C9_BackupOnce ==
    [][/\ screen'.page \in MainPages =>
            LET k == backup_key(screen'.year, screen'.month)
            IN  /\ screen'.backup <=> k \notin DOMAIN settings
                /\ k \notin DOMAIN settings => (k \in DOMAIN backups' /\ backups'[k] = Workbook)
                /\ k \in DOMAIN settings => backups' = backups
                /\ k \in DOMAIN settings' /\ settings'[k] = "done"
       /\ \A k \in DOMAIN settings : k \in DOMAIN settings' /\ settings'[k] = settings[k]
       /\ \A p \in DOMAIN backups : p \in DOMAIN backups' /\ backups'[p] = backups[p]]_vars

\* A run on a month already backed up, after rows were added: no new backup.
C9_Witness ==
    /\ OnMainPage
    /\ ~screen.backup
    /\ backup_key(screen.year, screen.month) \in DOMAIN backups
    /\ backups[backup_key(screen.year, screen.month)] # Workbook
    /\ settings[backup_key(screen.year, screen.month)] = "done"

\* C10: no step changes the budget table, and on an empty budget table no
\* run raises the over-budget warning.
C10_BudgetUntouched ==
    /\ budget = EmptyBudget => ~screen.warning
    /\ [][/\ budget' = budget
          /\ budget = EmptyBudget => ~screen'.warning]_vars

\* Expenses recorded on a database created without budget rows, the dashboard shown.
C10_Witness ==
    /\ budget = EmptyBudget
    /\ Len(expenses) = 2
    /\ screen.page = "Dashboard"
    /\ screen.totals[1].expenses > 0
    /\ ~screen.warning

====
